---- MODULE Spec2Model ----
(***************************************************************************)
(* A model of the RayTracer repository (src/src/RayTracer.cpp and its      *)
(* callers).  The world is one-dimensional: a Vector is an integer, its    *)
(* dot product is the product, its length the absolute value and           *)
(* normalize() the sign.  Real numbers that are not positions (colors,     *)
(* intensities, reflectivities, refractive indices) are exact rationals.   *)
(***************************************************************************)
EXTENDS Integers, Sequences, FiniteSets, TLC

VARIABLES
  pc,               \* where main() is: "main", "open", "while", "addMaterial",
                    \* "outFile", "readScene", "traceRays", "done", "exit",
                    \* "deleted", "glutMainLoop"
  width,            \* RayTracer::width
  height,           \* RayTracer::height
  superSamples,     \* RayTracer::superSamples
  objects,          \* RayTracer::objects, in insertion order
  lights,           \* RayTracer::lights, in insertion order
  maxReflections,   \* RayTracer::maxReflections
  dispersion,       \* RayTracer::dispersion
  depthComplexity,  \* RayTracer::depthComplexity
  camera,           \* RayTracer::camera (position, lookAt, up, w, u, v)
  imageScale,       \* RayTracer::imageScale
  materials,        \* RayTracer::materials: pairs of a name and a Material*
  heap,             \* what new made, by address, and how often it was deleted
  words,            \* the words the scene file may hold where a directive is
                    \* expected
  in,               \* the state bits of the istream readScene reads
  type,             \* readScene's local type: the word in directive position
  materialName,     \* addMaterial's local materialName
  status,           \* the status the process exited with, if it has
  raysCast,         \* RayTracer::raysCast
  columnsCompleted, \* traceRays' local columnsCompleted
  image,            \* traceRays' local image: per pixel its color and writers
  claimed,          \* the iterations of the parallel for handed to a thread
  worker,           \* per thread: its place in the parallel for of traceRays
  file,             \* the images written by Image::WriteTga, in order
  stack,            \* per thread: the activation records of castRay
  ret,              \* per thread: the Color the last castRay returned, if unread
  atPoint,          \* per thread: the activation record of castRayAtPoint
  spawned,          \* per thread: recursive castRay calls since the view ray
  lightingCalls     \* number of performLighting calls so far

\* The constructor's arguments that nothing assigns afterwards, and what
\* traceRays and its parallel for own.
renderVars == <<width, height, superSamples, columnsCompleted, image, claimed,
                worker, file>>

\* What main(), readScene and its helpers own besides the lists of objects
\* and lights: no step of traceRays assigns one of them.
mainVars ==
  <<imageScale, materials, heap, words, in, type, materialName, status>>

vars == <<pc, objects, lights, maxReflections, dispersion, depthComplexity,
          camera, raysCast, stack, ret, atPoint, spawned, lightingCalls,
          renderVars, mainVars>>

\* ------------------------------------------------------------------ bounds
MaxObjects == 2
MaxLights == 2
MaxBudget == 2
MaxDepthComplexity == 2
MaxThreads == 2
MaxWidth == 2
MaxHeight == 2

\* ------------------------------------------------------------ arithmetic
Abs(x) == IF x < 0 THEN -x ELSE x

Sgn(x) == IF x < 0 THEN -1 ELSE IF x > 0 THEN 1 ELSE 0

Max2(a, b) == IF a >= b THEN a ELSE b

MinOf(S) == CHOOSE x \in S : \A y \in S : x <= y

RECURSIVE GCD(_, _)
GCD(a, b) == IF b = 0 THEN a ELSE GCD(b, a % b)

\* The rational n/d in lowest terms with a positive denominator.
Rat(n, d) ==
  LET s == IF d < 0 THEN -1 ELSE 1
      g == GCD(Abs(n), Abs(d))
  IN  [n |-> (s * n) \div g, d |-> (s * d) \div g]

RInt(k) == [n |-> k, d |-> 1]

RAdd(a, b) == Rat(a.n * b.d + b.n * a.d, a.d * b.d)

RSub(a, b) == Rat(a.n * b.d - b.n * a.d, a.d * b.d)

RMul(a, b) == Rat(a.n * b.n, a.d * b.d)

RDiv(a, b) == Rat(a.n * b.d, a.d * b.n)

RLt(a, b) == a.n * b.d < b.n * a.d

RLe(a, b) == a.n * b.d <= b.n * a.d

\* ------------------------------------------------------- Vector and Color
\* Vector::normalize in one dimension.  A zero vector has no direction: the
\* C++ divides by a zero length and every component is NaN; 0 stands for it.
normalize(v) == Sgn(v)

length(v) == Abs(v)

dot(a, b) == a * b

IsNaN(direction) == direction = 0

Color(r, g, b) == [r |-> r, g |-> g, b |-> b]

\* Color(): the default, black.
Black == Color(RInt(0), RInt(0), RInt(0))

White == Color(RInt(1), RInt(1), RInt(1))

CAdd(a, b) == Color(RAdd(a.r, b.r), RAdd(a.g, b.g), RAdd(a.b, b.b))

CMul(a, k) == Color(RMul(a.r, k), RMul(a.g, k), RMul(a.b, k))

\* ------------------------------------------------------ program constants
NOT_SHINY == -1

NOT_REFLECTIVE == RInt(-1)

NOT_REFRACTIVE == RInt(-1)

AIR_REFRACTIVE_INDEX == RInt(1)

\* numeric_limits<double>::max(): larger than every distance of the world.
DBL_MAX == 1000000

\* ------------------------------------------------------------ scene inputs
\* FlatColor materials: color, shininess, reflectivity, refractiveIndex.
FlatColor(color, shininess, reflectivity, refractiveIndex) ==
  [color |-> color, shininess |-> shininess, reflectivity |-> reflectivity,
   refractiveIndex |-> refractiveIndex]

Matte == FlatColor(White, NOT_SHINY, NOT_REFLECTIVE, NOT_REFRACTIVE)

Mirror == FlatColor(White, 2, Rat(1, 2), NOT_REFRACTIVE)

Dull == FlatColor(Color(RInt(1), RInt(0), RInt(0)), NOT_SHINY, RInt(0), NOT_REFRACTIVE)

Glass == FlatColor(White, NOT_SHINY, NOT_REFLECTIVE, RInt(3))

NoMaterial == FlatColor(Black, NOT_SHINY, NOT_REFLECTIVE, NOT_REFRACTIVE)

Sphere(center, radius, material) ==
  [center |-> center, radius |-> radius, material |-> material]

Light(position, intensity) == [position |-> position, intensity |-> intensity]

\* The sphere and light directives a scene file may hold.
SphereInputs ==
  {Sphere(-2, 1, Mirror), Sphere(-2, 1, Matte), Sphere(2, 1, Mirror),
   Sphere(2, 1, Glass), Sphere(2, 1, Dull)}

LightInputs == {Light(0, RInt(1)), Light(4, RInt(2))}

PositionInputs == {-1, 3}

LookAtInputs == {-4, 4}

\* ---------------------------------------------------- Ray and Intersection
\* Ray(origin, direction, reflections, refractiveIndex); the direction is
\* kept as a unit vector.
Ray(origin, direction, reflectionsRemaining, refractiveIndex) ==
  [origin |-> origin, direction |-> normalize(direction),
   reflectionsRemaining |-> reflectionsRemaining,
   refractiveIndex |-> refractiveIndex]

NoRay == Ray(0, 0, 0, AIR_REFRACTIVE_INDEX)

\* Intersection(false)
NoIntersection ==
  [didIntersect |-> FALSE, distance |-> 0, intersection |-> 0, normal |-> 0,
   ray |-> NoRay, material |-> NoMaterial]

\* Sphere::intersect: the smaller positive root of the ray/sphere equation.
intersect(object, ray) ==
  LET t1 == (object.center - object.radius - ray.origin) * ray.direction
      t2 == (object.center + object.radius - ray.origin) * ray.direction
      roots == {t \in {t1, t2} : t > 0}
  IN  IF IsNaN(ray.direction) \/ roots = {}
      THEN NoIntersection
      ELSE LET t == MinOf(roots)
               point == ray.origin + t * ray.direction
           IN  [didIntersect |-> TRUE, distance |-> t, intersection |-> point,
                normal |-> normalize(point - object.center), ray |-> ray,
                material |-> object.material]

\* Intersection::getColor: the material's color at the hit point.
getColor(intersection) == intersection.material.color

\* ----------------------------------------------------- intersection search
\* A shadow test that, as src/main.cpp's, takes any hit for a blocker.
blocksLight_anyHit(intersection, lightDistance) == intersection.didIntersect

\* The test of isInShadow's loop (RayTracer.cpp:122).
blocksLight(intersection, lightDistance) ==
  intersection.didIntersect /\ intersection.distance < lightDistance

\* isInShadow's loop from the iterator itr on: it returns at the first
\* object that blocks the light.
RECURSIVE isInShadowLoop(_, _, _)
isInShadowLoop(itr, ray, lightDistance) ==
  IF itr > Len(objects) THEN FALSE
  ELSE IF blocksLight(intersect(objects[itr], ray), lightDistance) THEN TRUE
  ELSE isInShadowLoop(itr + 1, ray, lightDistance)

\* A loop whose result is overwritten by every later object.
isInShadow_lastObject(ray, lightDistance) ==
  /\ objects # <<>>
  /\ blocksLight(intersect(objects[Len(objects)], ray), lightDistance)

isInShadow(ray, lightDistance) == isInShadowLoop(1, ray, lightDistance)

\* A search that keeps the last hit, whatever its distance.
isCloser_anyHit(intersection, closestIntersection) == intersection.didIntersect

\* The test of getClosestIntersection's loop (RayTracer.cpp:137).
isCloser(intersection, closestIntersection) ==
  intersection.didIntersect /\ intersection.distance < closestIntersection.distance

RECURSIVE closestLoop(_, _, _)
closestLoop(itr, ray, closestIntersection) ==
  IF itr > Len(objects) THEN closestIntersection
  ELSE LET intersection == intersect(objects[itr], ray)
       IN  closestLoop(itr + 1, ray,
                       IF isCloser(intersection, closestIntersection)
                       THEN intersection ELSE closestIntersection)

getClosestIntersection(ray) ==
  closestLoop(1, ray, [NoIntersection EXCEPT !.distance = DBL_MAX])

\* ---------------------------------------------------------------- lighting
reflectVector(vector, normal) == normal * 2 * dot(vector, normal) - vector

getAmbientLighting(intersection, color) == CMul(color, Rat(2, 10))

\* pow(dot, shininess) for the dot products of this world.
RECURSIVE pow(_, _)
pow(base, exponent) == IF exponent <= 0 THEN 1 ELSE base * pow(base, exponent - 1)

getSpecularLighting(intersection, light) ==
  LET shininess == intersection.material.shininess
      view == normalize(intersection.ray.origin - intersection.intersection)
      lightOffset == light.position - intersection.intersection
      reflected == reflectVector(normalize(lightOffset), intersection.normal)
      d == dot(view, reflected)
      specularAmount == RMul(RInt(pow(d, shininess)), light.intensity)
  IN  IF shininess = NOT_SHINY THEN Black
      ELSE IF d <= 0 THEN Black
      ELSE Color(specularAmount, specularAmount, specularAmount)

\* The direction from the hit point to a light, and its dot product with the
\* normal.
lightDirectionOf(intersection, light) ==
  normalize(light.position - intersection.intersection)

dotProductOf(intersection, light) ==
  dot(intersection.normal, lightDirectionOf(intersection, light))

\* "Intersection is facing light" (RayTracer.cpp:177); a comparison with NaN
\* is false.
facesLight(intersection, light) ==
  /\ ~IsNaN(lightDirectionOf(intersection, light))
  /\ dotProductOf(intersection, light) >= 0

shadowRayOf(intersection, light) ==
  Ray(intersection.intersection, lightDirectionOf(intersection, light), 1,
      intersection.ray.refractiveIndex)

\* Whether the loop body reaches the accumulation for this light.
lightContributes(intersection, light) ==
  /\ facesLight(intersection, light)
  /\ ~isInShadow(shadowRayOf(intersection, light),
                 length(light.position - intersection.intersection))

\* The accumulation of one light (RayTracer.cpp:188-190).
accumulate(acc, intersection, color, light) ==
  [diffuseColor |->
     CMul(CAdd(acc.diffuseColor,
               CMul(color, RInt(dotProductOf(intersection, light)))),
          light.intensity),
   specularColor |->
     CAdd(acc.specularColor, getSpecularLighting(intersection, light))]

RECURSIVE lightsLoop(_, _, _, _)
lightsLoop(itr, acc, intersection, color) ==
  IF itr > Len(lights) THEN acc
  ELSE lightsLoop(itr + 1,
                  IF lightContributes(intersection, lights[itr])
                  THEN accumulate(acc, intersection, color, lights[itr])
                  ELSE acc,
                  intersection, color)

\* diffuseColor and specularColor at the end of the loop over the lights.
diffuseAndSpecular(intersection, color) ==
  lightsLoop(1, [diffuseColor |-> Black, specularColor |-> Black],
             intersection, color)

getDiffuseAndSpecularLighting(intersection, color) ==
  LET acc == diffuseAndSpecular(intersection, color)
  IN  CAdd(acc.diffuseColor, acc.specularColor)

\* sqrt of a rational that is a perfect square.
ISqrt(k) == CHOOSE r \in 0..k : r * r = k

RSqrt(a) == Rat(ISqrt(a.n), ISqrt(a.d))

getReflectance(normal, incident, n1, n2) ==
  LET n == RDiv(n1, n2)
      cosI == RInt(-dot(normal, incident))
      sinT2 == RMul(RMul(n, n), RSub(RInt(1), RMul(cosI, cosI)))
      cosT == RSqrt(RSub(RInt(1), sinT2))
      r0rth == RDiv(RSub(RMul(n1, cosI), RMul(n2, cosT)),
                    RAdd(RMul(n1, cosI), RMul(n2, cosT)))
      rPar == RDiv(RSub(RMul(n2, cosI), RMul(n1, cosT)),
                   RAdd(RMul(n2, cosI), RMul(n1, cosT)))
  IN  IF RLt(RInt(1), sinT2) THEN RInt(1)
      ELSE RDiv(RAdd(RMul(r0rth, r0rth), RMul(rPar, rPar)), RInt(2))

\* The first test of getReflectiveRefractiveLighting (RayTracer.cpp:235).
notReflectiveOrSpent(intersection) ==
  \/ /\ intersection.material.reflectivity = NOT_REFLECTIVE
     /\ intersection.material.refractiveIndex = NOT_REFRACTIVE
  \/ intersection.ray.reflectionsRemaining <= 0

reflectivePercentage(intersection) ==
  IF intersection.material.refractiveIndex # NOT_REFRACTIVE
  THEN getReflectance(intersection.normal, intersection.ray.direction,
                      AIR_REFRACTIVE_INDEX, intersection.material.refractiveIndex)
  ELSE intersection.material.reflectivity

refractivePercentage(intersection) ==
  IF intersection.material.refractiveIndex # NOT_REFRACTIVE
  THEN RSub(RInt(1), reflectivePercentage(intersection))
  ELSE RInt(0)

\* A test that looks at the budget alone.
spawnsReflectedRay_budgetOnly(intersection) ==
  intersection.ray.reflectionsRemaining > 0

\* Whether getReflectiveRefractiveLighting reaches its castRay call
\* (RayTracer.cpp:235-260).
spawnsReflectedRay(intersection) ==
  /\ ~notReflectiveOrSpent(intersection)
  /\ ~(/\ RLe(refractivePercentage(intersection), RInt(0))
       /\ RLe(reflectivePercentage(intersection), RInt(0)))
  /\ RLt(RInt(0), reflectivePercentage(intersection))

\* A reflected ray that keeps its parent's budget.
reflectedBudget_kept(reflectionsRemaining) == reflectionsRemaining

\* The budget of the reflected ray (RayTracer.cpp:263).
reflectedBudget(reflectionsRemaining) == reflectionsRemaining - 1

reflectedRay(intersection) ==
  Ray(intersection.intersection,
      reflectVector(intersection.ray.origin, intersection.normal),
      reflectedBudget(intersection.ray.reflectionsRemaining),
      intersection.ray.refractiveIndex)

\* reflectiveColor, from the color the reflected ray traced (RayTracer.cpp:265).
reflectiveColorOf(intersection, traced) ==
  CMul(traced, intersection.material.reflectivity)

\* What performLighting has before the reflective term: ambient + direct.
ambientAndDirect(intersection) ==
  LET color == getColor(intersection)
  IN  CAdd(getAmbientLighting(intersection, color),
           getDiffuseAndSpecularLighting(intersection, color))

\* ------------------------------------------------------------------ state
Threads == DOMAIN stack

\* The main thread.
Main == 0

NoColor == <<>>

Frame(ray) ==
  [ray |-> ray, pc |-> "raysCast", reg |-> 0, intersection |-> NoIntersection,
   lit |-> Black]

Top(t) == stack[t][Len(stack[t])]

Pop(s) == SubSeq(s, 1, Len(s) - 1)

IdleAtPoint == [pc |-> "idle", point |-> 0, i |-> 0, color |-> Black]

\* The cross product: the vectors of a one-dimensional world are parallel.
cross(a, b) == 0

\* Camera::calculateWUV: the basis of a camera with the fields of camera_.
calculateWUV(camera_) ==
  LET w == normalize(camera_.lookAt - camera_.position)
      u == normalize(cross(camera_.up, w))
      v == cross(w, u)
  IN  [camera_ EXCEPT !.w = w, !.u = u, !.v = v]

\* Camera(): at the origin, looking down the axis, its basis computed.
InitCamera ==
  calculateWUV([position |-> 0, lookAt |-> -4, up |-> 1,
                w |-> 0, u |-> 0, v |-> 0])

\* An istream that has met neither its end nor an error.
GoodStream == [eofbit |-> FALSE, failbit |-> FALSE]

\* istream::good
good(in_) == ~in_.eofbit /\ ~in_.failbit

IdleWorker ==
  [pc |-> "idle", x |-> 0, y |-> 0, reg |-> 0, sample |-> 0, color |-> Black]

\* Image(width, height): every pixel black, written by nobody yet.
Image(width_, height_) ==
  [pixel \in (0..(width_ - 1)) \X (0..(height_ - 1)) |->
     [color |-> Black, writers |-> <<>>]]

\* RayTracer::RayTracer.
Constructed(width_, height_, maxReflections_, superSamples_, depthComplexity_) ==
  /\ width = width_
  /\ height = height_
  /\ maxReflections = maxReflections_
  /\ superSamples = superSamples_
  /\ camera = InitCamera
  /\ imageScale = 1
  /\ depthComplexity = depthComplexity_
  /\ dispersion = 5
  /\ raysCast = 0
  /\ materials = {}

\* The scene before readScene has read anything.
NoScene ==
  /\ objects = <<>>
  /\ lights = <<>>
  /\ heap = <<>>

\* The scene readScene leaves for a file of one mirror sphere and one light.
MirrorScene ==
  /\ objects = <<Sphere(-2, 1, Mirror)>>
  /\ lights = <<Light(0, RInt(1))>>
  /\ heap = <<>>

\* The process before traceRays, run by the threads of team: nothing is
\* traced, nothing is read and the process has not exited.
Idle(team, words_) ==
  /\ words = words_
  /\ in = GoodStream
  /\ type = <<>>
  /\ materialName = <<>>
  /\ status = <<>>
  /\ columnsCompleted = 0
  /\ image = Image(0, 0)
  /\ claimed = {}
  /\ file = <<>>
  /\ worker = [t \in team |-> IdleWorker]
  /\ stack = [t \in team |-> <<>>]
  /\ ret = [t \in team |-> NoColor]
  /\ atPoint = [t \in team |-> IdleAtPoint]
  /\ spawned = [t \in team |-> 0]
  /\ lightingCalls = 0

\* main() in readScene, between two directives.
Started(team) ==
  /\ pc = "readScene"
  /\ Idle(team, {})

\* ------------------------------------------------------ readScene directives
addObject(object) == objects' = Append(objects, object)

addLight(light) == lights' = Append(lights, light)

readScene_sphere ==
  /\ pc = "readScene"
  /\ Len(objects) < MaxObjects
  /\ \E object \in SphereInputs : addObject(object)
  /\ UNCHANGED <<mainVars,
                 pc, lights, maxReflections, dispersion, depthComplexity, camera,
                 raysCast, stack, ret, atPoint, spawned, lightingCalls,
                 renderVars>>

readScene_light ==
  /\ pc = "readScene"
  /\ Len(lights) < MaxLights
  /\ \E light \in LightInputs : addLight(light)
  /\ UNCHANGED <<mainVars,
                 pc, objects, maxReflections, dispersion, depthComplexity, camera,
                 raysCast, stack, ret, atPoint, spawned, lightingCalls,
                 renderVars>>

readScene_maxReflections ==
  /\ pc = "readScene"
  /\ \E k \in -1..MaxBudget : maxReflections' = k
  /\ UNCHANGED <<mainVars,
                 pc, objects, lights, dispersion, depthComplexity, camera,
                 raysCast, stack, ret, atPoint, spawned, lightingCalls,
                 renderVars>>

readScene_dispersion ==
  /\ pc = "readScene"
  /\ \E d \in -1..1 : dispersion' = d
  /\ UNCHANGED <<mainVars,
                 pc, objects, lights, maxReflections, depthComplexity, camera,
                 raysCast, stack, ret, atPoint, spawned, lightingCalls,
                 renderVars>>

readScene_cameraPosition ==
  /\ pc = "readScene"
  /\ \E position \in PositionInputs : camera' = [camera EXCEPT !.position = position]
  /\ UNCHANGED <<mainVars,
                 pc, objects, lights, maxReflections, dispersion, depthComplexity,
                 raysCast, stack, ret, atPoint, spawned, lightingCalls,
                 renderVars>>

readScene_cameraLookAt ==
  /\ pc = "readScene"
  /\ \E lookAt \in LookAtInputs : camera' = [camera EXCEPT !.lookAt = lookAt]
  /\ UNCHANGED <<mainVars,
                 pc, objects, lights, maxReflections, dispersion, depthComplexity,
                 raysCast, stack, ret, atPoint, spawned, lightingCalls,
                 renderVars>>

\* ------------------------------------------------------------------ castRay
\* castRay returns color to its caller.
Return(t, color) ==
  /\ stack' = [stack EXCEPT ![t] = Pop(@)]
  /\ ret' = [ret EXCEPT ![t] = <<color>>]

\* raysCast++ reads the counter.
castRay_load(t) ==
  /\ stack[t] # <<>>
  /\ Top(t).pc = "raysCast"
  /\ stack' = [stack EXCEPT ![t][Len(stack[t])] =
                 [@ EXCEPT !.pc = "body", !.reg = raysCast]]
  /\ UNCHANGED <<mainVars,
                 pc, objects, lights, maxReflections, dispersion, depthComplexity,
                 camera, raysCast, ret, atPoint, spawned, lightingCalls,
                 renderVars>>

\* A background that is not black.
background_ambient == CMul(White, Rat(2, 10))

\* What castRay returns for a ray that hits nothing: Color().
background == Black

\* raysCast++ writes the counter; then castRay runs to its return or to the
\* castRay call of getReflectiveRefractiveLighting.
castRay(t) ==
  /\ stack[t] # <<>>
  /\ Top(t).pc = "body"
  /\ raysCast' = Top(t).reg + 1
  /\ LET intersection == getClosestIntersection(Top(t).ray)
     IN  IF ~intersection.didIntersect
         THEN /\ Return(t, background)
              /\ UNCHANGED <<spawned, lightingCalls>>
         ELSE /\ lightingCalls' = lightingCalls + 1
              /\ IF spawnsReflectedRay(intersection)
                 THEN /\ stack' = [stack EXCEPT ![t] =
                            Append([@ EXCEPT ![Len(@)] =
                                      [@ EXCEPT !.pc = "reflect",
                                                !.intersection = intersection,
                                                !.lit = ambientAndDirect(intersection)]],
                                   Frame(reflectedRay(intersection)))]
                      /\ spawned' = [spawned EXCEPT ![t] = @ + 1]
                      /\ UNCHANGED ret
                 ELSE /\ Return(t, CAdd(ambientAndDirect(intersection), Black))
                      /\ UNCHANGED spawned
  /\ UNCHANGED <<mainVars,
                 pc, objects, lights, maxReflections, dispersion, depthComplexity,
                 camera, atPoint,
                 renderVars>>

\* The reflected ray's castRay returned: the rest of
\* getReflectiveRefractiveLighting, performLighting and castRay.
castRay_reflected(t) ==
  /\ stack[t] # <<>>
  /\ Top(t).pc = "reflect"
  /\ ret[t] # NoColor
  /\ LET reflectiveColor == reflectiveColorOf(Top(t).intersection, ret[t][1])
         refractiveColor == Black
     IN  Return(t, CAdd(Top(t).lit, CAdd(reflectiveColor, refractiveColor)))
  /\ UNCHANGED <<mainVars,
                 pc, objects, lights, maxReflections, dispersion, depthComplexity,
                 camera, raysCast, atPoint, spawned, lightingCalls,
                 renderVars>>

\* ----------------------------------------------------------- castRayAtPoint
\* The values (dispersion / RAND_MAX) * rand() can take.
Between(d) == IF d >= 0 THEN 0..d ELSE d..0

castRayAtPoint_call(t, point) ==
  /\ atPoint[t].pc \in {"idle", "done"}
  /\ atPoint' = [atPoint EXCEPT ![t] =
                   [pc |-> "loop", point |-> point, i |-> 0, color |-> Black]]

\* One turn of the loop, to its castRay call.  rand() is any value of
\* 0..RAND_MAX, so each disturbance is any value between 0 and dispersion.
castRayAtPoint_loop(t) ==
  /\ atPoint[t].pc = "loop"
  /\ atPoint[t].i < depthComplexity
  /\ \E disturbance \in (IF depthComplexity > 1 THEN Between(dispersion) ELSE {0}) :
       LET origin == camera.position + disturbance
           viewRay == Ray(origin, atPoint[t].point - origin, maxReflections,
                          AIR_REFRACTIVE_INDEX)
       IN  stack' = [stack EXCEPT ![t] = <<Frame(viewRay)>>]
  /\ atPoint' = [atPoint EXCEPT ![t].pc = "castRay"]
  /\ spawned' = [spawned EXCEPT ![t] = 0]
  /\ UNCHANGED <<mainVars,
                 pc, objects, lights, maxReflections, dispersion, depthComplexity,
                 camera, raysCast, ret, lightingCalls,
                 renderVars>>

\* color = color + (castRay(viewRay) * (1 / (float)depthComplexity))
castRayAtPoint_add(t) ==
  /\ atPoint[t].pc = "castRay"
  /\ stack[t] = <<>>
  /\ ret[t] # NoColor
  /\ atPoint' = [atPoint EXCEPT ![t] =
                   [@ EXCEPT !.pc = "loop", !.i = @ + 1,
                             !.color = CAdd(@, CMul(ret[t][1], Rat(1, depthComplexity)))]]
  /\ ret' = [ret EXCEPT ![t] = NoColor]
  /\ UNCHANGED <<mainVars,
                 pc, objects, lights, maxReflections, dispersion, depthComplexity,
                 camera, raysCast, stack, spawned, lightingCalls,
                 renderVars>>

castRayAtPoint_return(t) ==
  /\ atPoint[t].pc = "loop"
  /\ atPoint[t].i >= depthComplexity
  /\ atPoint' = [atPoint EXCEPT ![t].pc = "done"]

\* ---------------------------------------------------------------- traceRays
\* A start of traceRays that resets the dispersion with the depthComplexity.
traceRays_begin_resetsDispersion ==
  /\ pc \in {"readScene", "outFile"}
  /\ pc' = "traceRays"
  /\ columnsCompleted' = 0
  /\ image' = Image(width, height)
  /\ depthComplexity' = IF dispersion < 0 THEN 1 ELSE depthComplexity
  /\ dispersion' = IF dispersion < 0 THEN 0 ELSE dispersion
  /\ claimed' = {}
  /\ worker' = [t \in Threads |-> [IdleWorker EXCEPT !.pc = "for"]]
  /\ UNCHANGED <<mainVars,
                 width, height, superSamples, file, objects, lights,
                 maxReflections, camera, raysCast, stack, ret,
                 atPoint, spawned, lightingCalls>>

\* The start of traceRays, to its parallel for: the team starts.
traceRays_begin ==
  /\ pc \in {"readScene", "outFile"}
  /\ pc' = "traceRays"
  /\ columnsCompleted' = 0
  /\ image' = Image(width, height)
  /\ depthComplexity' = IF dispersion < 0 THEN 1 ELSE depthComplexity
  /\ claimed' = {}
  /\ worker' = [t \in Threads |-> [IdleWorker EXCEPT !.pc = "for"]]
  /\ UNCHANGED <<mainVars,
                 width, height, superSamples, file, objects, lights,
                 maxReflections, dispersion, camera, raysCast, stack, ret,
                 atPoint, spawned, lightingCalls>>

\* A parallel for that hands an iteration to every thread that asks.
iterations_shared == 0..(width - 1)

\* The iterations x of the parallel for that no thread has been given: the
\* work-sharing loop gives each iteration to one thread.
iterations == (0..(width - 1)) \ claimed

\* Entering the loop over y, or leaving it for the next x.
rows(w, y) ==
  IF y < height
  THEN [w EXCEPT !.pc = "castRayForPixel", !.y = y, !.sample = 0, !.color = Black]
  ELSE [w EXCEPT !.pc = "for", !.y = y]

\* A thread of the team takes its next x.
for_next(t) ==
  /\ pc = "traceRays"
  /\ worker[t].pc = "for"
  /\ \E x \in iterations :
       /\ claimed' = claimed \cup {x}
       /\ worker' = [worker EXCEPT ![t] = [@ EXCEPT !.pc = "columnsCompleted", !.x = x]]
  /\ UNCHANGED <<mainVars,
                 pc, width, height, superSamples, columnsCompleted, image, file,
                 objects, lights, maxReflections, dispersion, depthComplexity,
                 camera, raysCast, stack, ret, atPoint, spawned, lightingCalls>>

\* No x is left for the thread: it waits at the end of the parallel for.
for_done(t) ==
  /\ pc = "traceRays"
  /\ worker[t].pc = "for"
  /\ iterations = {}
  /\ worker' = [worker EXCEPT ![t].pc = "barrier"]
  /\ UNCHANGED <<mainVars,
                 pc, width, height, superSamples, columnsCompleted, image,
                 claimed, file, objects, lights, maxReflections, dispersion,
                 depthComplexity, camera, raysCast, stack, ret, atPoint, spawned,
                 lightingCalls>>

\* columnsCompleted++ reads the counter.
columnsCompleted_load(t) ==
  /\ worker[t].pc = "columnsCompleted"
  /\ worker' = [worker EXCEPT ![t] = [@ EXCEPT !.pc = "percentage",
                                               !.reg = columnsCompleted]]
  /\ UNCHANGED <<mainVars,
                 pc, width, height, superSamples, columnsCompleted, image,
                 claimed, file, objects, lights, maxReflections, dispersion,
                 depthComplexity, camera, raysCast, stack, ret, atPoint, spawned,
                 lightingCalls>>

\* columnsCompleted++ writes the counter; the percentage is printed and the
\* loop over y starts.
columnsCompleted_store(t) ==
  /\ worker[t].pc = "percentage"
  /\ columnsCompleted' = worker[t].reg + 1
  /\ worker' = [worker EXCEPT ![t] = rows(@, 0)]
  /\ UNCHANGED <<mainVars,
                 pc, width, height, superSamples, image, claimed, file, objects,
                 lights, maxReflections, dispersion, depthComplexity, camera,
                 raysCast, stack, ret, atPoint, spawned, lightingCalls>>

\* ---------------------------------------------------------- castRayForPixel
\* One turn of the loops over the samples, to its castRayAtPoint call.  In
\* this world u and v vanish and the image plane point is camera.lookAt.
castRayForPixel_loop(t) ==
  /\ worker[t].pc = "castRayForPixel"
  /\ worker[t].sample < superSamples * superSamples
  /\ castRayAtPoint_call(t, camera.lookAt)
  /\ worker' = [worker EXCEPT ![t].pc = "castRayAtPoint"]
  /\ UNCHANGED <<mainVars,
                 pc, width, height, superSamples, columnsCompleted, image,
                 claimed, file, objects, lights, maxReflections, dispersion,
                 depthComplexity, camera, raysCast, stack, ret, spawned,
                 lightingCalls>>

\* castRayAtPoint returned:
\* color = color + (castRayAtPoint(imagePlanePoint) * sampleWeight)
castRayForPixel_add(t) ==
  /\ worker[t].pc = "castRayAtPoint"
  /\ worker' = [worker EXCEPT ![t] =
                  [@ EXCEPT !.pc = "castRayForPixel",
                            !.sample = @ + 1,
                            !.color = CAdd(@, CMul(atPoint[t].color,
                                                   Rat(1, superSamples * superSamples)))]]
  /\ castRayAtPoint_return(t)
  /\ UNCHANGED <<mainVars,
                 pc, width, height, superSamples, columnsCompleted, image,
                 claimed, file, objects, lights, maxReflections, dispersion,
                 depthComplexity, camera, raysCast, stack, ret, spawned,
                 lightingCalls>>

\* castRayForPixel returned: image.pixel(x, y, color), and y++.
image_pixel(t) ==
  /\ worker[t].pc = "castRayForPixel"
  /\ worker[t].sample >= superSamples * superSamples
  /\ image' = [image EXCEPT ![<<worker[t].x, worker[t].y>>] =
                 [color |-> worker[t].color, writers |-> Append(@.writers, t)]]
  /\ worker' = [worker EXCEPT ![t] = rows(@, @.y + 1)]
  /\ UNCHANGED <<mainVars,
                 pc, width, height, superSamples, columnsCompleted, claimed, file,
                 objects, lights, maxReflections, dispersion, depthComplexity,
                 camera, raysCast, stack, ret, atPoint, spawned, lightingCalls>>

\* The end of the parallel for: every thread of the team has arrived.
joined == \A t \in Threads : worker[t].pc = "barrier"

\* The rest of traceRays: the counts are printed and image.WriteTga runs.
traceRays_end ==
  /\ pc = "traceRays"
  /\ joined
  /\ file' = Append(file, image)
  /\ pc' = "done"
  /\ UNCHANGED <<mainVars,
                 width, height, superSamples, columnsCompleted, image, claimed,
                 worker, objects, lights, maxReflections, dispersion,
                 depthComplexity, camera, raysCast, stack, ret, atPoint, spawned,
                 lightingCalls>>

\* What a thread of the team does in traceRays.
Render(t) ==
  \/ for_next(t)
  \/ columnsCompleted_load(t)
  \/ columnsCompleted_store(t)
  \/ castRayForPixel_loop(t)
  \/ castRayAtPoint_loop(t)
  \/ castRay_load(t)
  \/ castRay(t)
  \/ castRay_reflected(t)
  \/ castRayAtPoint_add(t)
  \/ castRayForPixel_add(t)
  \/ image_pixel(t)
  \/ for_done(t)

\* --------------------------------------------------------- specifications
\* One thread and one pixel, a scene read directive by directive.
InitCast ==
  /\ Constructed(1, 1, MaxBudget, 1, 1)
  /\ NoScene
  /\ Started({Main})

NextCast ==
  \/ readScene_sphere
  \/ readScene_light
  \/ readScene_maxReflections
  \/ readScene_cameraPosition
  \/ readScene_cameraLookAt
  \/ traceRays_begin
  \/ Render(Main)
  \/ traceRays_end

SpecCast == InitCast /\ [][NextCast]_vars

\* One thread and one pixel, any depthComplexity, spheres and a dispersion
\* read directive by directive.
InitSample ==
  /\ \E depthComplexity_ \in 1..MaxDepthComplexity :
       Constructed(1, 1, MaxBudget, 1, depthComplexity_)
  /\ NoScene
  /\ Started({Main})

NextSample ==
  \/ readScene_sphere
  \/ readScene_dispersion
  \/ traceRays_begin
  \/ Render(Main)
  \/ traceRays_end

SpecSample == InitSample /\ [][NextSample]_vars

\* The threads of the parallel for: the main thread and the others.  They
\* render an image of any size up to MaxWidth x MaxHeight of the mirror scene.
Team == 0..(MaxThreads - 1)

InitRender ==
  /\ \E width_ \in 1..MaxWidth, height_ \in 1..MaxHeight :
       Constructed(width_, height_, 1, 1, 1)
  /\ MirrorScene
  /\ Started(Team)

NextRender ==
  \/ traceRays_begin
  \/ \E t \in Team : Render(t)
  \/ traceRays_end

SpecRender == InitRender /\ [][NextRender]_vars

\* The sphere and light directives of readScene alone.
NextScene ==
  \/ readScene_sphere
  \/ readScene_light

SpecScene == InitCast /\ [][NextScene]_vars

\* ------------------------------------------- main and readScene, word by word
\* A word of the scene file is the sequence of its characters.
W_material == <<"m", "a", "t", "e", "r", "i", "a", "l">>

W_sphere == <<"s", "p", "h", "e", "r", "e">>

W_light == <<"l", "i", "g", "h", "t">>

W_dispersion == <<"d", "i", "s", "p", "e", "r", "s", "i", "o", "n">>

W_maxReflections ==
  <<"m", "a", "x", "R", "e", "f", "l", "e", "c", "t", "i", "o", "n", "s">>

W_cameraUp == <<"c", "a", "m", "e", "r", "a", "U", "p">>

W_cameraPosition ==
  <<"c", "a", "m", "e", "r", "a", "P", "o", "s", "i", "t", "i", "o", "n">>

W_cameraLookAt == <<"c", "a", "m", "e", "r", "a", "L", "o", "o", "k", "A", "t">>

W_imageScale == <<"i", "m", "a", "g", "e", "S", "c", "a", "l", "e">>

W_FlatColor == <<"F", "l", "a", "t", "C", "o", "l", "o", "r">>

W_Checkerboard == <<"C", "h", "e", "c", "k", "e", "r", "b", "o", "a", "r", "d">>

\* Words no branch of readScene compares with, a comment and the rest of a
\* comment's line.
W_box == <<"b", "o", "x">>

W_comment == <<"#">>

RestOfLine == <<" ", "b", "o", "x">>

\* Material names.
N_red == <<"r", "e", "d">>

N_Red == <<"R", "e", "d">>

\* The words readScene's branches compare type with.
Directives ==
  {W_material, W_sphere, W_light, W_dispersion, W_maxReflections, W_cameraUp,
   W_cameraPosition, W_cameraLookAt, W_imageScale}

\* The words a scene file may hold where a directive is expected, after
\* material, and where a material body starts.
WordInputs == Directives \cup {W_box, W_comment}

SceneWords == {W_material, W_sphere, W_light, W_box, W_comment}

NameInputs == {N_red, N_Red}

BodyInputs == {W_FlatColor, W_Checkerboard, N_red}

UpInputs == {-1}

ImageScaleInputs == {2}

\* Checkerboard: color1, color2, scale, shininess, reflectivity.  Its color
\* at every point of this world is color1.
Checkerboard(color1, color2, scale, shininess, reflectivity) ==
  [color |-> color1, color2 |-> color2, scale |-> scale,
   shininess |-> shininess, reflectivity |-> reflectivity,
   refractiveIndex |-> NOT_REFRACTIVE]

\* The values the bodies of the scene file give a material.
ValueOf(word) ==
  IF word = W_FlatColor THEN Mirror
  ELSE Checkerboard(White, Black, 1, NOT_SHINY, NOT_REFLECTIVE)

\* isupper
isupper(c) ==
  c \in {"A", "B", "C", "D", "E", "F", "G", "H", "I", "J", "K", "L", "M",
         "N", "O", "P", "Q", "R", "S", "T", "U", "V", "W", "X", "Y", "Z"}

\* in >> word, for a string: the stream's bits and the string afterwards.  A
\* stream that is not good extracts nothing and fails; a good one extracts the
\* next word, and meets the end of the file when no white space follows the
\* word; when only white space is left it meets the end and fails, the string
\* unchanged.
Extractions(in_, word, words_) ==
  IF ~good(in_)
  THEN {[in |-> [in_ EXCEPT !.failbit = TRUE], word |-> word]}
  ELSE {[in |-> in_, word |-> w] : w \in words_}
       \cup {[in |-> [in_ EXCEPT !.eofbit = TRUE], word |-> w] : w \in words_}
       \cup {[in |-> [eofbit |-> TRUE, failbit |-> TRUE], word |-> word]}

\* in >> type, from a stream in_ whose string holds word.
extract_type(in_, word) ==
  \E e \in Extractions(in_, word, words) : in' = e.in /\ type' = e.word

EXIT_SUCCESS == 0

EXIT_FAILURE == 1

\* exit(code)
exit(code) ==
  /\ status' = <<code>>
  /\ pc' = "exit"

\* What no step of main() before traceRays assigns: the scene file and what
\* traceRays and castRay own.
traceVars ==
  <<words, raysCast, stack, ret, atPoint, spawned, lightingCalls, renderVars>>

\* main() without a scene file argument.
main_usage ==
  /\ pc = "main"
  /\ exit(EXIT_FAILURE)
  /\ UNCHANGED <<objects, lights, maxReflections, dispersion, depthComplexity,
                 camera, imageScale, materials, heap, in, type, materialName,
                 traceVars>>

\* main() opens the scene file, or takes cin: a file that fails to open ends
\* the process.
main_open ==
  /\ pc = "main"
  /\ \E fail \in BOOLEAN :
       IF fail
       THEN exit(EXIT_FAILURE)
       ELSE pc' = "open" /\ UNCHANGED status
  /\ UNCHANGED <<objects, lights, maxReflections, dispersion, depthComplexity,
                 camera, imageScale, materials, heap, in, type, materialName,
                 traceVars>>

\* readScene to its loop: the first in >> type.
readScene ==
  /\ pc = "open"
  /\ extract_type(in, <<>>)
  /\ pc' = "while"
  /\ UNCHANGED <<objects, lights, maxReflections, dispersion, depthComplexity,
                 camera, imageScale, materials, heap, materialName, status,
                 traceVars>>

\* The test of the loop holds and type is word.
while(word) ==
  /\ pc = "while"
  /\ good(in)
  /\ type = word

\* ------------------------------------------------------------- the materials
\* materials.count(name)
count(name) == Cardinality({entry \in materials : entry[1] = name})

\* materials[name], for a name the map holds.
lookup(name) == (CHOOSE entry \in materials : entry[1] = name)[2]

\* materials.insert(entry): a map keeps the entry it has for a key.
insert(entry) ==
  IF count(entry[1]) > 0 THEN materials ELSE materials \cup {entry}

\* The addresses new gave to things of this kind.
Allocated(heap_, kind) == {a \in DOMAIN heap_ : a[1] = kind}

\* new: the heap with one more thing of this kind, and its address.
new(heap_, kind, value, material) ==
  LET address == <<kind, Cardinality(Allocated(heap_, kind)) + 1>>
  IN  [address |-> address,
       heap |-> heap_ @@ (address :>
                  [value |-> value, material |-> material, deleted |-> 0])]

\* readMaterial for a body that starts with word: whether it exits, and
\* otherwise the heap afterwards and the Material* it returns.
readMaterial(word) ==
  IF word \in {W_FlatColor, W_Checkerboard}
  THEN LET made == new(heap, "Material", ValueOf(word), <<>>)
       IN  [exits |-> FALSE, heap |-> made.heap, material |-> made.address]
  ELSE IF count(word) > 0
       THEN [exits |-> FALSE, heap |-> heap, material |-> lookup(word)]
       ELSE [exits |-> TRUE, heap |-> heap, material |-> <<>>]

\* A name addMaterial refuses only for its upper case characters.
nameRejected_upperCase(name) == \E i \in 1..Len(name) : isupper(name[i])

\* addMaterial refuses a name with an upper case character and a name the
\* map holds.
nameRejected(name) ==
  \/ \E i \in 1..Len(name) : isupper(name[i])
  \/ count(name) > 0

\* material: addMaterial reads the name.
while_material ==
  /\ while(W_material)
  /\ \E name \in NameInputs \cup {<<>>} : materialName' = name
  /\ pc' = "addMaterial"
  /\ UNCHANGED <<objects, lights, maxReflections, dispersion, depthComplexity,
                 camera, imageScale, materials, heap, in, type, status,
                 traceVars>>

\* The rest of addMaterial, and the in >> type that ends the turn of the loop.
\* A file that ended before the name has no body either.
addMaterial ==
  /\ pc = "addMaterial"
  /\ IF nameRejected(materialName)
     THEN /\ exit(EXIT_FAILURE)
          /\ UNCHANGED <<materials, heap, in, type>>
     ELSE \E word \in (IF materialName = <<>> THEN {} ELSE BodyInputs)
                       \cup {<<>>} :
            LET material == readMaterial(word)
            IN  IF material.exits
                THEN /\ exit(EXIT_FAILURE)
                     /\ UNCHANGED <<materials, heap, in, type>>
                ELSE /\ heap' = material.heap
                     /\ materials' = insert(<<materialName, material.material>>)
                     /\ extract_type(in, type)
                     /\ pc' = "while"
                     /\ UNCHANGED status
  /\ materialName' = IF pc' = "while" THEN <<>> ELSE materialName
  /\ UNCHANGED <<objects, lights, maxReflections, dispersion, depthComplexity,
                 camera, imageScale, traceVars>>

\* ------------------------------------------------- the turns of the loop
\* A comment: getline takes the rest of the line for type.
while_comment ==
  /\ pc = "while"
  /\ good(in)
  /\ type # <<>>
  /\ type[1] = "#"
  /\ \E line \in {<<>>, RestOfLine} : extract_type(in, line)
  /\ UNCHANGED <<pc, objects, lights, maxReflections, dispersion,
                 depthComplexity, camera, imageScale, materials, heap,
                 materialName, status, traceVars>>

CenterInputs == {-2}

\* sphere: the center, the radius, readMaterial and addObject(new Sphere).
while_sphere ==
  /\ while(W_sphere)
  /\ Len(objects) < MaxObjects
  /\ \E center \in CenterInputs, word \in BodyInputs \cup {<<>>} :
       LET material == readMaterial(word)
       IN  IF material.exits
           THEN /\ exit(EXIT_FAILURE)
                /\ UNCHANGED <<objects, heap, in, type>>
           ELSE LET object == Sphere(center, 1, material.heap[material.material].value)
                IN  /\ addObject(object)
                    /\ heap' = new(material.heap, "Sphere", object,
                                   material.material).heap
                    /\ extract_type(in, type)
                    /\ UNCHANGED <<pc, status>>
  /\ UNCHANGED <<lights, maxReflections, dispersion, depthComplexity, camera,
                 imageScale, materials, materialName, traceVars>>

\* light: addLight(new Light).
while_light ==
  /\ while(W_light)
  /\ Len(lights) < MaxLights
  /\ \E light \in {Light(0, RInt(1))} :
       /\ addLight(light)
       /\ heap' = new(heap, "Light", light, <<>>).heap
  /\ extract_type(in, type)
  /\ UNCHANGED <<pc, objects, maxReflections, dispersion, depthComplexity,
                 camera, imageScale, materials, materialName, status,
                 traceVars>>

\* dispersion: in >> dispersion.
while_dispersion ==
  /\ while(W_dispersion)
  /\ \E d \in {-1} : dispersion' = d
  /\ extract_type(in, type)
  /\ UNCHANGED <<pc, objects, lights, maxReflections, depthComplexity, camera,
                 imageScale, materials, heap, materialName, status, traceVars>>

\* maxReflections: in >> maxReflections.
while_maxReflections ==
  /\ while(W_maxReflections)
  /\ \E k \in {0} : maxReflections' = k
  /\ extract_type(in, type)
  /\ UNCHANGED <<pc, objects, lights, dispersion, depthComplexity, camera,
                 imageScale, materials, heap, materialName, status, traceVars>>

\* cameraUp: in >> camera.up.
while_cameraUp ==
  /\ while(W_cameraUp)
  /\ \E up \in UpInputs : camera' = [camera EXCEPT !.up = up]
  /\ extract_type(in, type)
  /\ UNCHANGED <<pc, objects, lights, maxReflections, dispersion,
                 depthComplexity, imageScale, materials, heap, materialName,
                 status, traceVars>>

\* cameraPosition: in >> camera.position.
while_cameraPosition ==
  /\ while(W_cameraPosition)
  /\ \E position \in {3} : camera' = [camera EXCEPT !.position = position]
  /\ extract_type(in, type)
  /\ UNCHANGED <<pc, objects, lights, maxReflections, dispersion,
                 depthComplexity, imageScale, materials, heap, materialName,
                 status, traceVars>>

\* cameraLookAt: in >> camera.lookAt.
while_cameraLookAt ==
  /\ while(W_cameraLookAt)
  /\ \E lookAt \in {4} : camera' = [camera EXCEPT !.lookAt = lookAt]
  /\ extract_type(in, type)
  /\ UNCHANGED <<pc, objects, lights, maxReflections, dispersion,
                 depthComplexity, imageScale, materials, heap, materialName,
                 status, traceVars>>

\* imageScale: in >> imageScale.
while_imageScale ==
  /\ while(W_imageScale)
  /\ \E scale \in ImageScaleInputs : imageScale' = scale
  /\ extract_type(in, type)
  /\ UNCHANGED <<pc, objects, lights, maxReflections, dispersion,
                 depthComplexity, camera, materials, heap, materialName,
                 status, traceVars>>

\* The last branch: "Type not found".
while_else ==
  /\ pc = "while"
  /\ good(in)
  /\ ~(type # <<>> /\ type[1] = "#")
  /\ type \notin Directives
  /\ exit(EXIT_FAILURE)
  /\ UNCHANGED <<objects, lights, maxReflections, dispersion, depthComplexity,
                 camera, imageScale, materials, heap, in, type, materialName,
                 traceVars>>

\* The test of the loop fails: readScene returns, main() closes the file.
readScene_return ==
  /\ pc = "while"
  /\ ~good(in)
  /\ pc' = "outFile"
  /\ UNCHANGED <<objects, lights, maxReflections, dispersion, depthComplexity,
                 camera, imageScale, materials, heap, in, type, materialName,
                 status, traceVars>>

\* The end of main(): exit(EXIT_SUCCESS).
main_exit ==
  /\ pc = "done"
  /\ exit(EXIT_SUCCESS)
  /\ UNCHANGED <<objects, lights, maxReflections, dispersion, depthComplexity,
                 camera, imageScale, materials, heap, in, type, materialName,
                 traceVars>>

\* --------------------------------------------------------------- ~RayTracer
\* The addresses the vectors objects and lights hold.
VectorsHold ==
  {<<"Sphere", i>> : i \in 1..Len(objects)}
  \cup {<<"Light", i>> : i \in 1..Len(lights)}

\* How often ~RayTracer releases the thing at this address: once for each
\* delete *itr, and once for each sphere that holds it as its material when
\* the destructor of a sphere releases the material.
deletes(address, sphereOwnsMaterial) ==
  (IF address \in VectorsHold THEN 1 ELSE 0)
  + (IF sphereOwnsMaterial
     THEN Cardinality({i \in 1..Len(objects) :
                         heap[<<"Sphere", i>>].material = address})
     ELSE 0)

\* ~RayTracer, for a RayTracer that goes out of scope after readScene or
\* after traceRays: delete *itr for every object and for every light.  The
\* destructor of Sphere is not part of these sources: it may or may not
\* release the sphere's material.
delete_RayTracer ==
  /\ pc \in {"outFile", "done"}
  /\ pc' = "deleted"
  /\ \E sphereOwnsMaterial \in BOOLEAN :
       heap' = [address \in DOMAIN heap |->
                  [heap[address] EXCEPT
                     !.deleted = @ + deletes(address, sphereOwnsMaterial)]]
  /\ UNCHANGED <<objects, lights, maxReflections, dispersion, depthComplexity,
                 camera, imageScale, materials, in, type, materialName,
                 status, traceVars>>

\* main() and readScene for every scene file of materials, spheres, lights,
\* comments and words readScene does not know, then ~RayTracer.
InitRead ==
  /\ Constructed(1, 1, MaxBudget, 1, 1)
  /\ NoScene
  /\ Idle({Main}, SceneWords)
  /\ pc = "main"

NextRead ==
  \/ main_usage
  \/ main_open
  \/ readScene
  \/ while_comment
  \/ while_material
  \/ addMaterial
  \/ while_sphere
  \/ while_light
  \/ while_else
  \/ readScene_return
  \/ delete_RayTracer

SpecRead == InitRead /\ [][NextRead]_vars

\* main() from its start to its exit, for every scene file of spheres,
\* lights, dispersion, maxReflections and imageScale directives and words
\* readScene does not know: one thread and one pixel.
MainWords ==
  {W_sphere, W_light, W_dispersion, W_maxReflections, W_imageScale, W_box}

InitMain ==
  /\ Constructed(1, 1, MaxBudget, 1, 1)
  /\ NoScene
  /\ Idle({Main}, MainWords)
  /\ pc = "main"

NextMain ==
  \/ main_usage
  \/ main_open
  \/ readScene
  \/ while_sphere
  \/ while_light
  \/ while_dispersion
  \/ while_maxReflections
  \/ while_imageScale
  \/ while_else
  \/ readScene_return
  \/ traceRays_begin
  \/ Render(Main)
  \/ traceRays_end
  \/ main_exit

SpecMain == InitMain /\ [][NextMain]_vars

\* ---------------------------------------------------------------- the viewer
\* The viewer has read its scene and waits for events.
glutMainLoop ==
  /\ pc = "outFile"
  /\ pc' = "glutMainLoop"
  /\ UNCHANGED <<objects, lights, maxReflections, dispersion, depthComplexity,
                 camera, imageScale, materials, heap, in, type, materialName,
                 status, traceVars>>

\* The keys of keyboard's switch, Esc apart, and a key it has no case for.
KeyInputs == {"w", "s", "a", "d", "x"}

\* The farthest a camera travels.
MaxPosition == 6

\* keyboard's switch for a key other than Esc.
move(camera_, key) ==
  IF key = "w"
  THEN [camera_ EXCEPT !.position = @ - camera_.w, !.lookAt = @ - camera_.w]
  ELSE IF key = "s"
  THEN [camera_ EXCEPT !.position = @ + camera_.w, !.lookAt = @ + camera_.w]
  ELSE IF key = "a"
  THEN [camera_ EXCEPT !.position = @ - camera_.v, !.lookAt = @ - camera_.v]
  ELSE IF key = "d"
  THEN [camera_ EXCEPT !.position = @ + camera_.v, !.lookAt = @ + camera_.v]
  ELSE camera_

\* The camera after keyboard(key, x, y): the switch, then calculateWUV.
pressed(camera_, key) == calculateWUV(move(camera_, key))

\* keyboard(key, x, y) for a key other than Esc.
keyboard ==
  /\ pc = "glutMainLoop"
  /\ \E key \in KeyInputs :
       /\ camera' = pressed(camera, key)
       /\ camera' # camera
       /\ Abs(camera'.position) <= MaxPosition
  /\ UNCHANGED <<pc, objects, lights, maxReflections, dispersion,
                 depthComplexity, imageScale, materials, heap, in, type,
                 materialName, status, traceVars>>

\* keyboard(27, x, y): Esc ends the process.
keyboard_Esc ==
  /\ pc = "glutMainLoop"
  /\ exit(0)
  /\ UNCHANGED <<objects, lights, maxReflections, dispersion, depthComplexity,
                 camera, imageScale, materials, heap, in, type, materialName,
                 traceVars>>

\* The camera directives of a scene file of one mirror sphere and one light
\* are read; then either main() renders the scene or the viewer takes key
\* events.
CameraWords == {W_cameraUp, W_cameraPosition, W_cameraLookAt}

InitView ==
  /\ Constructed(1, 1, MaxBudget, 1, 1)
  /\ MirrorScene
  /\ Idle({Main}, CameraWords)
  /\ pc = "open"

NextView ==
  \/ readScene
  \/ while_cameraUp
  \/ while_cameraPosition
  \/ while_cameraLookAt
  \/ readScene_return
  \/ traceRays_begin
  \/ Render(Main)
  \/ traceRays_end
  \/ glutMainLoop
  \/ keyboard
  \/ keyboard_Esc

SpecView == InitView /\ [][NextView]_vars

\* =================================================================== claims
Hits(ray) == {i \in 1..Len(objects) : intersect(objects[i], ray).didIntersect}

\* ----------------------------------------------------------------------- C1
\* A measure of the castRay work a thread still has: it falls with every
\* step of castRay.
Weight(frame) ==
  IF frame.pc = "raysCast" THEN 3 ELSE IF frame.pc = "body" THEN 2 ELSE 1

RECURSIVE SumWeights(_)
SumWeights(s) == IF s = <<>> THEN 0 ELSE Weight(s[Len(s)]) + SumWeights(Pop(s))

Measure(t) ==
  SumWeights(stack[t])
  + (IF stack[t] # <<>> /\ Top(t).pc \in {"raysCast", "body"}
     THEN 4 * Max2(Top(t).ray.reflectionsRemaining, 0) ELSE 0)

\* Every castRay on the stack has at most as many castRay calls nested in it
\* as its ray's budget (none when the budget is <= 0), and each nested ray
\* carries its parent's budget minus one.
BudgetBoundsDepth ==
  \A t \in Threads :
    /\ spawned[t] <= Max2(maxReflections, 0)
    /\ \A i \in 1..Len(stack[t]) :
         /\ Len(stack[t]) - i <= Max2(stack[t][i].ray.reflectionsRemaining, 0)
         /\ i > 1 =>
              /\ stack[t][i - 1].ray.reflectionsRemaining > 0
              /\ stack[t][i].ray.reflectionsRemaining
                   = stack[t][i - 1].ray.reflectionsRemaining - 1

\* A castRay in progress can always take a step, and every step decreases
\* Measure: no castRay runs forever.
CastRaySteps ==
  \A t \in Threads :
    stack[t] # <<>> =>
      \/ stack'[t] = stack[t]
      \/ Measure(t)' < Measure(t)

\* The guards of castRay_load, castRay and castRay_reflected: one of them holds.
CastRayNotStuck ==
  \A t \in Threads :
    stack[t] # <<>> =>
      \/ Top(t).pc = "raysCast"
      \/ Top(t).pc = "body"
      \/ Top(t).pc = "reflect" /\ ret[t] # NoColor

\* C1: a castRay whose ray has budget k has at most k castRay calls nested in
\* it; no ray is spawned at budget <= 0, a spawned ray carries budget - 1, and
\* every castRay call terminates.
C1_BudgetBoundsRecursion ==
  /\ [](BudgetBoundsDepth /\ CastRayNotStuck)
  /\ [][CastRaySteps]_vars

\* A view ray that used up its whole budget and returned.
C1_Witness ==
  \E t \in Threads :
    /\ maxReflections = MaxBudget
    /\ spawned[t] = MaxBudget
    /\ stack[t] = <<>>
    /\ ret[t] # NoColor

\* ----------------------------------------------------------------------- C2
\* C2: a castRay whose ray no object reports a hit for returns the zero color,
\* without a performLighting call and without spawning a ray.
C2_MissReturnsBackground ==
  [][\A t \in Threads :
       (/\ stack[t] # <<>>
        /\ Top(t).pc = "body"
        /\ stack'[t] # stack[t]
        /\ Hits(Top(t).ray) = {})
       => /\ ret'[t] = <<Color(RInt(0), RInt(0), RInt(0))>>
          /\ stack'[t] = Pop(stack[t])
          /\ lightingCalls' = lightingCalls
          /\ spawned'[t] = spawned[t]]_vars

\* A view ray that missed every object of a scene that has objects, after its
\* castRay returned.
C2_Witness ==
  \E t \in Threads :
    /\ objects # <<>>
    /\ atPoint[t].pc = "castRay"
    /\ stack[t] = <<>>
    /\ ret[t] = <<Black>>
    /\ lightingCalls = 0

\* ----------------------------------------------------------------------- C3
\* The rays whose castRay is about to search, or has searched, the scene.
SearchedRays ==
  UNION {{stack[t][i].ray : i \in 1..Len(stack[t])} : t \in Threads}

\* C3: getClosestIntersection returns a hit with the smallest distance among
\* the objects that report a hit, whatever the order of the list, and with no
\* hit a result with didIntersect = false and the maximal distance.
C3_ClosestIsNearestHit ==
  \A ray \in SearchedRays :
    LET closest == getClosestIntersection(ray)
    IN  IF Hits(ray) = {}
        THEN ~closest.didIntersect /\ closest.distance = DBL_MAX
        ELSE /\ closest.didIntersect
             /\ \E i \in Hits(ray) : closest = intersect(objects[i], ray)
             /\ \A i \in Hits(ray) :
                  closest.distance <= intersect(objects[i], ray).distance

\* A castRay found, behind a first object that is hit too, a nearer second one.
C3_Witness ==
  \E t \in Threads : \E i \in 1..Len(stack[t]) :
    /\ stack[t][i].pc = "reflect"
    /\ Len(objects) >= 2
    /\ intersect(objects[1], stack[t][i].ray).didIntersect
    /\ stack[t][i].intersection = intersect(objects[2], stack[t][i].ray)
    /\ stack[t][i].intersection.distance
         < intersect(objects[1], stack[t][i].ray).distance

\* ----------------------------------------------------------------------- C4
\* The shadow tests of the lighting of a hit: a shadow ray and the distance
\* of its light, for each light the hit faces.
ShadowTests(intersection) ==
  {[ray |-> shadowRayOf(intersection, lights[k]),
    lightDistance |-> length(lights[k].position - intersection.intersection)] :
     k \in {j \in 1..Len(lights) : facesLight(intersection, lights[j])}}

\* The shadow tests of the castRay calls in progress.
CurrentShadowTests ==
  UNION {ShadowTests(getClosestIntersection(ray)) :
           ray \in {r \in SearchedRays : Hits(r) # {}}}

\* C4: isInShadow answers as a scan of all the objects would: true exactly
\* when some object reports a hit nearer than lightDistance, which is exactly
\* when getClosestIntersection's hit is nearer than lightDistance.
C4_ShadowEqualsFullScan ==
  \A test \in CurrentShadowTests :
    /\ isInShadow(test.ray, test.lightDistance)
         <=> \E i \in Hits(test.ray) :
               intersect(objects[i], test.ray).distance < test.lightDistance
    /\ isInShadow(test.ray, test.lightDistance)
         <=> /\ getClosestIntersection(test.ray).didIntersect
             /\ getClosestIntersection(test.ray).distance < test.lightDistance

\* Lighting ran for a hit one of whose lights the first object does not hide
\* and the second does.
C4_Witness ==
  \E t \in Threads : \E i \in 1..Len(stack[t]) :
    /\ stack[t][i].pc = "reflect"
    /\ Len(objects) >= 2
    /\ \E test \in ShadowTests(stack[t][i].intersection) :
         /\ ~blocksLight(intersect(objects[1], test.ray), test.lightDistance)
         /\ blocksLight(intersect(objects[2], test.ray), test.lightDistance)
         /\ isInShadow(test.ray, test.lightDistance)

\* ----------------------------------------------------------------------- C5
\* The hit points lighting can be asked about: those of the input spheres.
ProbeIntersections ==
  {intersect(object, Ray(origin, direction, 1, AIR_REFRACTIVE_INDEX)) :
     object \in SphereInputs, origin \in -4..4, direction \in {-1, 1}}
    \ {NoIntersection}

\* C5: for a fixed hit point and light, adding an object to the scene never
\* turns isInShadow from true to false, nor a light that does not contribute
\* into one that does.
C5_ShadowMonotone ==
  [][objects' # objects =>
       \A intersection \in ProbeIntersections : \A light \in LightInputs :
         /\ isInShadow(shadowRayOf(intersection, light),
                       length(light.position - intersection.intersection))
              => isInShadow(shadowRayOf(intersection, light),
                            length(light.position - intersection.intersection))'
         /\ lightContributes(intersection, light)'
              => lightContributes(intersection, light)]_vars

\* An object was added that hides a light the objects before it left visible.
C5_Witness ==
  /\ Len(objects) = 2
  /\ \E intersection \in ProbeIntersections : \E light \in LightInputs :
       LET ray == shadowRayOf(intersection, light)
           lightDistance == length(light.position - intersection.intersection)
       IN  /\ facesLight(intersection, light)
           /\ ~blocksLight(intersect(objects[1], ray), lightDistance)
           /\ blocksLight(intersect(objects[2], ray), lightDistance)
           /\ ~lightContributes(intersection, light)

\* ----------------------------------------------------------------------- C6
\* C6: when the hit material's reflectivity and refractive index are both the
\* sentinels, castRay spawns no ray and adds nothing to the ambient and direct
\* terms, whatever the budget of the ray.
C6_SentinelsReflectNothing ==
  [][\A t \in Threads :
       (/\ stack[t] # <<>>
        /\ Top(t).pc = "body"
        /\ stack'[t] # stack[t]
        /\ Hits(Top(t).ray) # {}
        /\ getClosestIntersection(Top(t).ray).material.reflectivity = NOT_REFLECTIVE
        /\ getClosestIntersection(Top(t).ray).material.refractiveIndex = NOT_REFRACTIVE)
       => /\ stack'[t] = Pop(stack[t])
          /\ spawned'[t] = spawned[t]
          /\ ret'[t] = <<ambientAndDirect(getClosestIntersection(Top(t).ray))>>]_vars

\* A ray with budget left has hit such a material and castRay has returned:
\* a reflected ray (a nested castRay) that hit a matte sphere.
C6_Witness ==
  \E t \in Threads :
    /\ Len(stack[t]) = 1
    /\ Top(t).pc = "reflect"
    /\ ret[t] # NoColor
    /\ reflectedRay(Top(t).intersection).reflectionsRemaining > 0
    /\ LET hit == getClosestIntersection(reflectedRay(Top(t).intersection))
       IN  /\ hit.didIntersect
           /\ hit.material.reflectivity = NOT_REFLECTIVE
           /\ hit.material.refractiveIndex = NOT_REFRACTIVE

\* ----------------------------------------------------------------------- C7
\* C7: the color traced by the reflected ray is scaled by the reflected
\* fraction, which is getReflectance's value for a material with a refractive
\* index and the material's reflectivity otherwise.
C7_ReflectedScaledByFraction ==
  [][\A t \in Threads :
       (/\ stack[t] # <<>>
        /\ Top(t).pc = "reflect"
        /\ stack'[t] # stack[t])
       => ret'[t] = <<CAdd(Top(t).lit,
                           CMul(ret[t][1],
                                reflectivePercentage(Top(t).intersection)))>>]_vars

\* ----------------------------------------------------------------------- C8
\* The sum, over the lights 1..k that face the hit and are not shadowed, of
\* color * (normal . lightDirection) * the light's intensity.
RECURSIVE SumDiffuse(_, _, _)
SumDiffuse(k, intersection, color) ==
  IF k = 0 THEN Black
  ELSE CAdd(SumDiffuse(k - 1, intersection, color),
            IF lightContributes(intersection, lights[k])
            THEN CMul(CMul(color, RInt(dotProductOf(intersection, lights[k]))),
                      lights[k].intensity)
            ELSE Black)

\* C8: the diffuse term is the sum over the lights that face the surface and
\* are not shadowed of color * (normal . lightDir) * that light's intensity,
\* so it does not depend on the order of the lights.
C8_DiffuseIsSumOverLights ==
  \A ray \in {r \in SearchedRays : Hits(r) # {}} :
    LET hit == getClosestIntersection(ray)
    IN  diffuseAndSpecular(hit, getColor(hit)).diffuseColor
          = SumDiffuse(Len(lights), hit, getColor(hit))

\* ----------------------------------------------------------------------- C9
\* C9: when dispersion is negative or zero, castRayAtPoint casts exactly one
\* ray for a sub-sample, from the camera position itself, whatever
\* depthComplexity the tracer was constructed with.
C9_NonPositiveDispersionCastsOneRay ==
  \A t \in Threads :
    (pc # "readScene" /\ dispersion <= 0)
    => /\ stack[t] # <<>> => stack[t][1].ray.origin = camera.position
       /\ atPoint[t].pc = "done" => atPoint[t].i = 1

\* ---------------------------------------------------------------------- C10
Pixels == (0..(width - 1)) \X (0..(height - 1))

\* C10: however the threads of the parallel for interleave, no pixel is
\* written twice (so no two threads write the same pixel), the file is written
\* at most once, and when it is written every pixel (x, y) with 0 <= x < width
\* and 0 <= y < height has been written exactly once and none is written
\* afterwards; a traceRays that has returned has written the file.
C10_EachPixelWrittenOnce ==
  /\ \A pixel \in DOMAIN image : Len(image[pixel].writers) <= 1
  /\ Len(file) <= 1
  /\ file # <<>> =>
       /\ DOMAIN file[1] = Pixels
       /\ \A pixel \in Pixels : Len(file[1][pixel].writers) = 1
       /\ image = file[1]
  /\ pc = "done" => Len(file) = 1

\* traceRays returned after two threads wrote pixels of an image of more than
\* one column and more than one row.
C10_Witness ==
  /\ pc = "done"
  /\ width > 1
  /\ height > 1
  /\ Len(file) = 1
  /\ \E p \in Pixels, q \in Pixels : file[1][p].writers # file[1][q].writers

\* ---------------------------------------------------------------------- C11
\* C11: under every interleaving of the threads of the parallel for, every
\* castRay invocation raises raysCast by exactly one at the step that
\* completes its raysCast++ (so no increment is lost and, at the end of
\* traceRays, raysCast is the number of castRay invocations), and raysCast
\* never decreases.
C11_NoIncrementLost ==
  [][/\ raysCast' >= raysCast
     /\ \A t \in Threads :
          (stack[t] # <<>> /\ Top(t).pc = "body" /\ stack'[t] # stack[t])
          => raysCast' = raysCast + 1]_vars

\* ---------------------------------------------------------------------- C12
\* A word that is no comment and none of the directives of readScene.
Unrecognized(word) ==
  /\ word # <<>>
  /\ \A i \in 1..Len(word) : word[i] # " "
  /\ word[1] # "#"
  /\ word \notin Directives

\* C12: whenever the word readScene holds in directive position is neither a
\* recognized directive nor a comment, the next thing the process does is to
\* exit with a non-zero status, wherever the word stands in the file, be it
\* the last word of the file: readScene never returns past such a word.
C12_UnknownDirectiveExits ==
  [][(pc = "while" /\ Unrecognized(type))
     => (status' # <<>> /\ status'[1] # 0)]_vars

\* ---------------------------------------------------------------------- C13
HasUpperCase(name) == \E i \in 1..Len(name) : isupper(name[i])

Registered(name) == \E entry \in materials : entry[1] = name

Rendering ==
  \/ pc \in {"traceRays", "done"}
  \/ raysCast > 0
  \/ file # <<>>

\* C14: rendering work starts only after the scene file was opened and
\* readScene consumed the description without meeting a configuration error
\* (a word in directive position that readScene does not know), and a process
\* that exits with a non-zero status has traced no pixel and written no image
\* file.
C14_RenderOnlyAfterCleanRead ==
  /\ Rendering => (pc \notin {"main", "open", "while"} /\ ~Unrecognized(type))
  /\ (status # <<>> /\ status[1] # 0) => (raysCast = 0 /\ file = <<>>)

\* ---------------------------------------------------------------------- C15
\* C15: once ~RayTracer has run, everything readScene, addMaterial and
\* readMaterial allocated (every object, every light and every material) has
\* been released exactly once.
C15_EverythingReleasedOnce ==
  pc = "deleted" => \A address \in DOMAIN heap : heap[address].deleted = 1

\* ---------------------------------------------------------------------- C16
\* The fields of the scene other than depthComplexity and raysCast.
sceneFields ==
  <<objects, lights, materials, camera, width, height, maxReflections,
    superSamples, dispersion, imageScale>>

\* C16, as claimed: no step of traceRays, from its start to its end, changes
\* the list of objects, the list of lights, the map of materials, the camera
\* or one of width, height, maxReflections, superSamples, depthComplexity,
\* dispersion and imageScale.
C16_SceneImmutableWhileRendering ==
  [][(pc = "traceRays" \/ pc' = "traceRays")
     => UNCHANGED <<sceneFields, depthComplexity>>]_vars

\* C16, amended: no step of traceRays changes the objects, the lights, the
\* materials, the camera, width, height, maxReflections, superSamples,
\* dispersion or imageScale; depthComplexity changes only at the start of
\* traceRays, which sets it to 1 when dispersion is negative.
C16_SceneImmutableButDepthComplexity ==
  [][(pc = "traceRays" \/ pc' = "traceRays")
     => /\ UNCHANGED sceneFields
        /\ depthComplexity' =
             IF pc # "traceRays" /\ dispersion < 0 THEN 1
             ELSE depthComplexity]_vars

\* traceRays has rendered a sphere with a negative dispersion.
C16_Witness ==
  /\ pc = "done"
  /\ dispersion < 0
  /\ objects # <<>>
  /\ raysCast > 0
  /\ file # <<>>

\* ---------------------------------------------------------------------- C17
\* The basis of the camera is the one calculateWUV derives from its
\* position, lookAt and up.
Synchronized(camera_) == camera_ = calculateWUV(camera_)

\* C17: a key event that moves the camera leaves its basis synchronized with
\* position, lookAt and up, and castRayForPixel never generates a ray from a
\* basis that is not, whichever directives of readScene and key events wrote
\* the camera before.
C17_BasisFreshWhenUsed ==
  [][/\ (pc = "glutMainLoop" /\ camera' # camera) => Synchronized(camera')
     /\ \A t \in Threads :
          (worker[t].pc = "castRayForPixel" /\ worker'[t].pc = "castRayAtPoint")
          => Synchronized(camera)]_vars

\* ---------------------------------------------------------------------- C18
Opposites == {<<"w", "s">>, <<"s", "w">>, <<"a", "d">>, <<"d", "a">>}

\* C18: every key event moves position and lookAt by the same offset, so
\* lookAt - position keeps its value; the basis vectors w and v that the keys
\* use as offsets are the same after the event as before; and in every state
\* of the viewer a key followed by its opposite would restore position and
\* lookAt.
C18_KeysTranslateCamera ==
  /\ [][(pc = "glutMainLoop" /\ camera' # camera)
        => /\ camera'.lookAt - camera'.position
                = camera.lookAt - camera.position
           /\ camera'.w = camera.w
           /\ camera'.v = camera.v]_vars
  /\ [](pc = "glutMainLoop"
        => \A keys \in Opposites :
             LET back == pressed(pressed(camera, keys[1]), keys[2])
             IN  /\ back.position = camera.position
                 /\ back.lookAt = camera.lookAt)

====
